---- MODULE Spec2Model ----
(***************************************************************************)
(* Model of the APK packaging and signing layer of utils/apktool.py:       *)
(* the built-in compile (_simulate_compile), the JAR-style signer          *)
(* (_create_realistic_signed_apk), the DEX, binary-XML and resource-table  *)
(* encoders, and the APKTool entry points as apk_editor.py and the routes  *)
(* of app.py call them.                                                    *)
(*                                                                         *)
(* Digest functions (SHA-1, SHA-256, Adler-32) and base64 are modelled     *)
(* symbolically: the digest of x is a tagged copy of x, so two digests are *)
(* equal exactly when they were computed over the same bytes.              *)
(***************************************************************************)
EXTENDS Integers, Sequences, FiniteSets, TLC

VARIABLES
    srcExists,   \* whether the decompiled directory exists
    srcTree,     \* the files of the decompiled directory, in os.walk order
    apks,        \* the archive files on disk: "in", "compiled", "signed"
    now,         \* the wall clock
    last,        \* the last APKTool operation, what it returned, and the
                 \* warnings _simulate_compile logged if it was a compile
    dexPc,       \* position inside _create_realistic_dex
    dexTarget,   \* its target_size argument
    dex_data,    \* its bytearray (digest fields kept as zero placeholders)
    dexChecksum, \* the value stored at checksum_pos (symbolic Adler-32)
    dexSha1,     \* the value stored at sha1_pos (symbolic SHA-1)
    dexStart,    \* the length of dex_data when each section began to be written
    axmlPc,        \* position inside _create_binary_manifest_default
    manifest_data, \* its bytearray
    axmlChunks,    \* where each of its chunks was emitted: start and length
    arscPc,        \* position inside _create_resources_arsc
    arsc_data,     \* its bytearray
    arscChunks,    \* where each of its chunks was emitted: start and length
    thr,           \* the request each server thread is handling, and where it is
    done,          \* the last APKEditor.compile_apk call that returned, and its value
    api            \* the last APKTool entry point that returned, and how it ran

vars == <<srcExists, srcTree, apks, now, last,
          dexPc, dexTarget, dex_data, dexChecksum, dexSha1, dexStart,
          axmlPc, manifest_data, axmlChunks, arscPc, arsc_data, arscChunks,
          thr, done, api>>

pkgVars == <<srcExists, srcTree, apks, now, last>>
dexVars == <<dexPc, dexTarget, dex_data, dexChecksum, dexSha1, dexStart>>
encVars == <<axmlPc, manifest_data, axmlChunks, arscPc, arsc_data, arscChunks>>
appVars == <<thr, done, api>>

(***************************************************************************)
(* Bounds of the model.                                                    *)
(***************************************************************************)
MaxFiles   == 2   \* files in a decompiled directory
MaxEntries == 2   \* entries in an uploaded input archive
MaxClock   == 2   \* clock readings
MaxTargetK == 12  \* DEX target sizes are k * DexTargetStep, k in 0..MaxTargetK
NumThreads == 2   \* requests the threaded server handles at the same time

(***************************************************************************)
(* Paths.  A path is its directory components, the stem of the file name   *)
(* and the extension after the last dot; a ZIP directory entry (a name     *)
(* ending with "/") has an empty stem and extension.                       *)
(***************************************************************************)
Path(dir, name, ext) == [dir |-> dir, name |-> name, ext |-> ext]

AndroidManifestXml == Path(<<>>, "AndroidManifest", "xml")
ClassesDex         == Path(<<>>, "classes", "dex")
ResourcesArsc      == Path(<<>>, "resources", "arsc")
ApktoolYml         == Path(<<>>, "apktool", "yml")
ManifestMF         == Path(<<"META-INF">>, "MANIFEST", "MF")
CertSF             == Path(<<"META-INF">>, "CERT", "SF")
CertRSA            == Path(<<"META-INF">>, "CERT", "RSA")

\* filename.startswith(d + '/')
StartsWithDir(p, d) == Len(p.dir) > 0 /\ p.dir[1] = d

\* ZipInfo.is_dir(): the name ends with '/'
IsDir(p) == p.name = "" /\ p.ext = ""

RECURSIVE SumLen(_)
SumLen(dir) == IF dir = <<>> THEN 0 ELSE Len(Head(dir)) + 1 + SumLen(Tail(dir))

\* number of characters of the path written with '/' separators
PathLen(p) == SumLen(p.dir) + Len(p.name) + (IF p.ext = "" THEN 0 ELSE 1 + Len(p.ext))

(***************************************************************************)
(* Payloads.  A payload is a tagged tuple; the encoders of the program     *)
(* return fixed byte strings, named here by their encoder.                 *)
(***************************************************************************)
Raw(id, len, clen)  == <<"raw", id, len, clen>>   \* bytes of an input file
Yml(original_size)  == <<"yml", original_size>>   \* apktool.yml with its original_size line
Text(tokens)        == <<"text", tokens>>         \* text of MANIFEST.MF / CERT.SF
ManifestText(package) == <<"manifest", package>>  \* text AndroidManifest.xml with its package attribute

\* _create_binary_manifest_default(): always the same 2048 bytes
CreateBinaryManifestDefault == <<"axml-manifest-default">>

\* _create_binary_manifest(manifest_path): both branches return the default
CreateBinaryManifest(manifest_path) == CreateBinaryManifestDefault

\* _create_binary_xml(xml_path): a fixed 1024-byte block, the file is not read
CreateBinaryXml(xml_path) == <<"axml-generic">>

\* _create_resources_arsc(): always the same 4096 bytes
CreateResourcesArsc == <<"arsc">>

\* base_size = max(4096, target_size // 4)
DexBaseSize(target_size) == IF target_size \div 4 > 4096 THEN target_size \div 4 ELSE 4096

\* the image returned by _create_realistic_dex(target_size), named by its size
DexPayload(target_size) == <<"dex", DexBaseSize(target_size)>>

\* _create_enhanced_cert_rsa(): 3089 bytes that depend on int(time.time())
CreateEnhancedCertRsa(timestamp) == <<"rsa", timestamp>>

(***************************************************************************)
(* Symbolic digests and base64.                                            *)
(***************************************************************************)
SHA1(data)      == <<"sha1", data>>
SHA256(data)    == <<"sha256", data>>
Adler32(data)   == <<"adler32", data>>
B64Encode(hash) == <<"b64", hash>>

(***************************************************************************)
(* Text.  A text is a sequence of tokens: CRLF, or the content of one      *)
(* line.  A line (an element of manifest_lines / sf_lines) is a sequence   *)
(* of tokens without CRLF; the empty line is <<>>.                         *)
(***************************************************************************)
CRLF == <<"CRLF">>

Lit(s)               == << <<"lit", s>> >>
NameLine(filename)   == << <<"Name: ", filename>> >>
Sha1Line(b64)        == << <<"SHA1-Digest: ", b64>> >>
Sha256Line(b64)      == << <<"SHA-256-Digest: ", b64>> >>
DateLine(key, t)     == << <<key, t>> >>
EmptyLine            == <<>>

\* '\r\n'.join(lines)
RECURSIVE Join(_)
Join(lines) ==
    IF Len(lines) = 0 THEN <<>>
    ELSE IF Len(lines) = 1 THEN lines[1]
    ELSE lines[1] \o <<CRLF>> \o Join(Tail(lines))

\* the concatenation of the items a loop appends, in order
RECURSIVE Flatten(_)
Flatten(items) == IF Len(items) = 0 THEN <<>> ELSE Head(items) \o Flatten(Tail(items))

\* text[i:].split('\r\n\r\n') with the piece collected so far in cur
RECURSIVE SplitBlank(_, _, _)
SplitBlank(text, i, cur) ==
    IF i > Len(text) THEN <<cur>>
    ELSE IF i < Len(text) /\ text[i] = CRLF /\ text[i + 1] = CRLF
         THEN <<cur>> \o SplitBlank(text, i + 2, <<>>)
         ELSE SplitBlank(text, i + 1, Append(cur, text[i]))

\* text[i:].split('\r\n')
RECURSIVE SplitCrlf(_, _, _)
SplitCrlf(text, i, cur) ==
    IF i > Len(text) THEN <<cur>>
    ELSE IF text[i] = CRLF
         THEN <<cur>> \o SplitCrlf(text, i + 1, <<>>)
         ELSE SplitCrlf(text, i + 1, Append(cur, text[i]))

\* section.strip() is non-empty: some character is not whitespace
StripNonEmpty(section) == \E i \in 1..Len(section) : section[i] # CRLF

\* line.startswith('Name: ')
IsNameLine(line) == Len(line) > 0 /\ line[1][1] = "Name: "

(***************************************************************************)
(* ZIP archives on disk.                                                   *)
(***************************************************************************)
Entry(filename, data, date_time, ok) ==
    [filename |-> filename, data |-> data, date_time |-> date_time, ok |-> ok]

NoFile == [exists |-> FALSE, entries |-> <<>>, eocd_end |-> 0, size |-> 0]

\* characters of one token: the key, then a path, a base64 digest of 20 or 32
\* bytes, or a datetime.isoformat() value
TokenLen(tok) ==
    CASE tok = CRLF -> 2
      [] tok[1] = "lit" -> Len(tok[2])
      [] tok[1] = "Name: " -> 6 + PathLen(tok[2])
      [] tok[1] = "SHA-256-Digest: " -> 16 + 44
      [] tok[1] \in {"Build-Date: ", "Signature-Date: "} -> Len(tok[1]) + 26
      [] OTHER -> Len(tok[1]) + 28

RECURSIVE TextLen(_)
TextLen(text) == IF text = <<>> THEN 0 ELSE TokenLen(Head(text)) + TextLen(Tail(text))

\* len(data) of a payload
DataLen(data) ==
    CASE data[1] = "raw"  -> data[3]
      [] data[1] = "yml"  -> 120
      [] data[1] = "manifest" -> 600 + Len(data[2])
      [] data[1] = "axml-manifest-default" -> 2048
      [] data[1] = "axml-generic" -> 1024
      [] data[1] = "arsc" -> 4096
      [] data[1] = "dex"  -> data[2]
      [] data[1] = "rsa"  -> 3089
      [] OTHER -> TextLen(data[2])

\* size of the payload after ZIP_DEFLATED, compresslevel=6
CompressedLen(data) ==
    CASE data[1] = "raw"  -> data[4]
      [] data[1] = "axml-manifest-default" -> 428
      [] data[1] = "axml-generic" -> 407
      [] data[1] = "arsc" -> 217
      [] data[1] = "dex"  -> 340 + data[2] \div 1000
      [] data[1] = "rsa"  -> 622
      [] OTHER -> DataLen(data)

\* bytes of the file: local header + payload + central directory record per
\* entry, then the 22-byte end-of-central-directory record
RECURSIVE ZipSize(_)
ZipSize(entries) ==
    IF entries = <<>> THEN 22
    ELSE 30 + PathLen(Head(entries).filename) + CompressedLen(Head(entries).data)
         + 46 + PathLen(Head(entries).filename) + ZipSize(Tail(entries))

\* the file left by closing a ZipFile opened with mode 'w'
ZipClose(entries) ==
    [exists |-> TRUE, entries |-> entries,
     eocd_end |-> ZipSize(entries), size |-> ZipSize(entries)]

\* zipfile.ZipFile(path, 'r') succeeds: the end-of-central-directory record
\* is the last 22 bytes of the file, or starts within the last 65536 + 22
EndRecData(f) ==
    /\ f.exists
    /\ f.eocd_end >= 22
    /\ \/ f.size = f.eocd_end
       \/ f.eocd_end - 22 >= f.size - 65536 - 22

\* ZipFile.namelist()
Namelist(f) == [i \in 1..Len(f.entries) |-> f.entries[i].filename]

NameSet(f) == {f.entries[i].filename : i \in 1..Len(f.entries)}

\* ZipFile.read(name): the last entry of that name; fails on a damaged entry
ReadIndex(f, name) ==
    CHOOSE i \in 1..Len(f.entries) :
        /\ f.entries[i].filename = name
        /\ \A j \in (i + 1)..Len(f.entries) : f.entries[j].filename # name

ReadOk(f, name) == f.entries[ReadIndex(f, name)].ok

Read(f, name) == f.entries[ReadIndex(f, name)].data

(***************************************************************************)
(* The built-in compile.                                                   *)
(***************************************************************************)
SrcFile(path, data, ok) ==
    [path |-> path, data |-> data, ok |-> ok, mtime |-> 0,
     decodes |-> path.ext \in {"xml", "yml", "smali", "txt"}]

\* a file whose bytes are binary garbage: it can be read but not decoded as text
GarbageFile(path, data) == [SrcFile(path, data, TRUE) EXCEPT !.decodes = FALSE]

\* the files os.walk(decompiled_dir/top) yields, in walk order
Walk(tree, top) == SelectSeq(tree, LAMBDA f : StartsWithDir(f.path, top))

\* os.path.exists(os.path.join(decompiled_dir, name))
PathExists(tree, path) == \E i \in 1..Len(tree) : tree[i].path = path

RECURSIVE TotalSize(_)
TotalSize(tree) == IF tree = <<>> THEN 0 ELSE DataLen(Head(tree).data) + TotalSize(Tail(tree))

\* _estimate_apk_size: int(total_size * 0.4)
EstimateApkSize(tree) == (TotalSize(tree) * 4) \div 10

\* the original_size read from apktool.yml, 0 when there is none
YmlOriginalSize(tree) ==
    IF \E i \in 1..Len(tree) : tree[i].path = ApktoolYml /\ tree[i].ok /\ tree[i].data[1] = "yml"
    THEN LET i == CHOOSE j \in 1..Len(tree) : tree[j].path = ApktoolYml IN tree[i].data[2]
    ELSE 0

\* original_size as _simulate_compile determines it
OriginalSize(tree) ==
    IF YmlOriginalSize(tree) = 0 THEN EstimateApkSize(tree) ELSE YmlOriginalSize(tree)

\* file.endswith(('.png', '.jpg', '.jpeg', '.webp', '.gif'))
IsImage(path) == path.ext \in {"png", "jpg", "jpeg", "webp", "gif"}

\* ResourceEntry with every resource passed through the binary-XML branch
ResourceEntry_AllXml(f, t) == <<Entry(f.path, CreateBinaryXml(f.path), t, TRUE)>>

\* _add_resources_to_apk: one step of the loop, the entries written for file f
ResourceEntry(f, t) ==
    IF IsImage(f.path)
    THEN IF f.ok THEN <<Entry(f.path, f.data, t, TRUE)>> ELSE <<>>
    ELSE IF f.path.ext = "xml"
    THEN <<Entry(f.path, CreateBinaryXml(f.path), t, TRUE)>>
    ELSE IF f.ok THEN <<Entry(f.path, f.data, t, TRUE)>> ELSE <<>>

\* the warnings of a walk, msg being the one logged for a file that fails
RECURSIVE WalkWarnings(_, _)
WalkWarnings(files, msg) ==
    IF files = <<>> THEN <<>>
    ELSE (IF Head(files).ok THEN <<>> ELSE << <<msg, Head(files).path>> >>)
         \o WalkWarnings(Tail(files), msg)

\* the warnings _add_resources_to_apk logs: a .xml file is never opened
RECURSIVE ResourceWarnings(_)
ResourceWarnings(files) ==
    IF files = <<>> THEN <<>>
    ELSE (IF Head(files).path.ext # "xml" /\ ~Head(files).ok
          THEN << <<"Could not process resource", Head(files).path>> >>
          ELSE <<>>)
         \o ResourceWarnings(Tail(files))

\* the warnings _simulate_compile logs, in order
CompileWarnings(tree) ==
    ResourceWarnings(Walk(tree, "res"))
    \o WalkWarnings(Walk(tree, "assets"), "Could not add asset")
    \o WalkWarnings(Walk(tree, "lib"), "Could not add lib")

RECURSIVE AddResourcesToApk(_, _)
AddResourcesToApk(files, t) ==
    IF files = <<>> THEN <<>>
    ELSE ResourceEntry(Head(files), t) \o AddResourcesToApk(Tail(files), t)

\* apk_zip.write(file_path, arc_path) for each walked file, skipping failures
RECURSIVE WriteFiles(_)
WriteFiles(files) ==
    IF files = <<>> THEN <<>>
    ELSE (IF Head(files).ok
          THEN <<Entry(Head(files).path, Head(files).data, Head(files).mtime, TRUE)>>
          ELSE <<>>) \o WriteFiles(Tail(files))

\* CompileEntries with the lib/ walk moved before classes.dex
CompileEntries_LibBeforeDex(tree, original_size, t) ==
    <<Entry(AndroidManifestXml,
            IF PathExists(tree, AndroidManifestXml)
            THEN CreateBinaryManifest(AndroidManifestXml)
            ELSE CreateBinaryManifestDefault, t, TRUE)>>
    \o AddResourcesToApk(Walk(tree, "res"), t)
    \o WriteFiles(Walk(tree, "assets"))
    \o WriteFiles(Walk(tree, "lib"))
    \o <<Entry(ClassesDex, DexPayload(original_size), t, TRUE)>>
    \o <<Entry(ResourcesArsc, CreateResourcesArsc, t, TRUE)>>

\* the entries _simulate_compile writes, in the order it writes them
CompileEntries(tree, original_size, t) ==
    <<Entry(AndroidManifestXml,
            IF PathExists(tree, AndroidManifestXml)
            THEN CreateBinaryManifest(AndroidManifestXml)
            ELSE CreateBinaryManifestDefault, t, TRUE)>>
    \o AddResourcesToApk(Walk(tree, "res"), t)
    \o WriteFiles(Walk(tree, "assets"))
    \o <<Entry(ClassesDex, DexPayload(original_size), t, TRUE)>>
    \o <<Entry(ResourcesArsc, CreateResourcesArsc, t, TRUE)>>
    \o WriteFiles(Walk(tree, "lib"))

\* _pad_apk_file: append filler up to target_size
PadApkFile(f, target_size) ==
    IF f.size < target_size THEN [f EXCEPT !.size = target_size] ELSE f

Max(a, b) == IF a > b THEN a ELSE b

\* a compile that writes the manifest entry only when the tree has a manifest
CompiledFile_NoDefaultManifest(tree, t) ==
    LET original_size == OriginalSize(tree)
        es == CompileEntries(tree, original_size, t)
        f == ZipClose(IF PathExists(tree, AndroidManifestXml) THEN es ELSE Tail(es))
    IN  IF f.size < 50000
        THEN PadApkFile(f, Max(original_size \div 3, 200000))
        ELSE f

\* the file _simulate_compile leaves at output_apk
CompiledFile(tree, t) ==
    LET original_size == OriginalSize(tree)
        f == ZipClose(CompileEntries(tree, original_size, t))
    IN  IF f.size < 50000
        THEN PadApkFile(f, Max(original_size \div 3, 200000))
        ELSE f

SimulateCompile(output_apk) ==
    /\ apks' = [apks EXCEPT ![output_apk] = CompiledFile(srcTree, now)]
    /\ last' = [op |-> "compile", ret |-> TRUE, input |-> "src", output |-> output_apk,
                compile_warnings |-> CompileWarnings(srcTree)]
    /\ UNCHANGED <<srcExists, srcTree, now>>
    /\ UNCHANGED dexVars
    /\ UNCHANGED encVars
    /\ UNCHANGED appVars

(***************************************************************************)
(* The signer.                                                             *)
(***************************************************************************)
\* CopyEntry without the META-INF/ filter
CopyEntry_KeepMetaInf(input_zip, item, t) ==
    IF ~IsDir(item.filename) /\ ReadOk(input_zip, item.filename)
    THEN <<Entry(item.filename, Read(input_zip, item.filename), t, TRUE)>>
    ELSE <<>>

\* CopyEntry without the replacement of a short AndroidManifest.xml
CopyEntry_KeepShortManifest(input_zip, item, t) ==
    IF ~StartsWithDir(item.filename, "META-INF") /\ ~IsDir(item.filename)
       /\ ReadOk(input_zip, item.filename)
    THEN <<Entry(item.filename, Read(input_zip, item.filename), t, TRUE)>>
    ELSE <<>>

\* the copy loop of _create_realistic_signed_apk: one input entry
CopyEntry(input_zip, item, t) ==
    IF ~StartsWithDir(item.filename, "META-INF") /\ ~IsDir(item.filename)
    THEN IF ReadOk(input_zip, item.filename)
         THEN LET data == Read(input_zip, item.filename) IN
              <<Entry(item.filename,
                      IF item.filename = AndroidManifestXml /\ DataLen(data) < 100
                      THEN CreateBinaryManifestDefault
                      ELSE data, t, TRUE)>>
         ELSE <<>>
    ELSE <<>>

RECURSIVE CopyLoop(_, _, _)
CopyLoop(input_zip, i, t) ==
    IF i > Len(input_zip.entries) THEN <<>>
    ELSE CopyEntry(input_zip, input_zip.entries[i], t) \o CopyLoop(input_zip, i + 1, t)

\* a copy that ends at the first entry that cannot be read
CopyEntries_StopAtFailure(input_zip, t) ==
    LET bad == { i \in 1..Len(input_zip.entries) : ~input_zip.entries[i].ok }
        n   == IF bad = {} THEN Len(input_zip.entries)
               ELSE (CHOOSE i \in bad : \A j \in bad : i <= j) - 1
    IN  CopyLoop([input_zip EXCEPT !.entries = SubSeq(input_zip.entries, 1, n)], 1, t)

CopyEntries(input_zip, t) == CopyLoop(input_zip, 1, t)

\* _ensure_essential_files: the entries it adds to output_zip
EnsureEssentialFiles(input_zip, t) ==
    LET files == NameSet(input_zip) IN
    (IF AndroidManifestXml \notin files
     THEN <<Entry(AndroidManifestXml, CreateBinaryManifestDefault, t, TRUE)>> ELSE <<>>)
    \o (IF ClassesDex \notin files
        THEN <<Entry(ClassesDex, DexPayload(500000), t, TRUE)>> ELSE <<>>)
    \o (IF ResourcesArsc \notin files
        THEN <<Entry(ResourcesArsc, CreateResourcesArsc, t, TRUE)>> ELSE <<>>)

\* the lines _create_enhanced_manifest_mf appends for one entry of zip_file
ManifestSection(zip_file, item) ==
    IF ~StartsWithDir(item.filename, "META-INF") /\ ~IsDir(item.filename)
       /\ ReadOk(zip_file, item.filename)
    THEN LET data == Read(zip_file, item.filename) IN
         << NameLine(item.filename),
            Sha1Line(B64Encode(SHA1(data))),
            Sha256Line(B64Encode(SHA256(data))),
            EmptyLine >>
    ELSE <<>>

RECURSIVE ManifestSections(_, _)
ManifestSections(zip_file, i) ==
    IF i > Len(zip_file.entries) THEN <<>>
    ELSE ManifestSection(zip_file, zip_file.entries[i]) \o ManifestSections(zip_file, i + 1)

\* _create_enhanced_manifest_mf(zip_file), built at time t
CreateEnhancedManifestMf(zip_file, t) ==
    Join(<< Lit("Manifest-Version: 1.0"),
            Lit("Built-By: APK Editor Pro"),
            Lit("Created-By: APK Editor Enhanced System"),
            DateLine("Build-Date: ", t),
            EmptyLine >>
         \o ManifestSections(zip_file, 1))

\* the lines _create_enhanced_cert_sf appends for one section of the manifest
SfSection(section) ==
    IF StripNonEmpty(section)
    THEN LET section_b64 == B64Encode(SHA1(section \o <<CRLF, CRLF>>))
             lines == SplitCrlf(section, 1, <<>>)
         IN  IF \E k \in 1..Len(lines) : IsNameLine(lines[k])
             THEN LET k == CHOOSE k \in 1..Len(lines) :
                               /\ IsNameLine(lines[k])
                               /\ \A j \in 1..(k - 1) : ~IsNameLine(lines[j])
                  IN  << NameLine(lines[k][1][2]), Sha1Line(section_b64), EmptyLine >>
             ELSE <<>>
    ELSE <<>>

RECURSIVE SfSections(_)
SfSections(sections) ==
    IF Len(sections) = 0 THEN <<>>
    ELSE SfSection(Head(sections)) \o SfSections(Tail(sections))

\* CreateEnhancedCertSf with the manifest digest taken over the main
\* attributes instead of the whole manifest
CreateEnhancedCertSf_HashMainAttrs(manifest_content, t) ==
    LET sections  == SplitBlank(manifest_content, 1, <<>>)
        main_attrs == sections[1] \o <<CRLF>>
    IN  Join(<< Lit("Signature-Version: 1.0"),
                << <<"SHA1-Digest-Manifest: ", B64Encode(SHA1(main_attrs))>> >>,
                << <<"SHA1-Digest-Manifest-Main-Attributes: ", B64Encode(SHA1(main_attrs))>> >>,
                Lit("Created-By: APK Editor Enhanced"),
                DateLine("Signature-Date: ", t),
                EmptyLine >>
             \o SfSections(Tail(sections)))

\* _create_enhanced_cert_sf(manifest_content), built at time t
CreateEnhancedCertSf(manifest_content, t) ==
    LET sections  == SplitBlank(manifest_content, 1, <<>>)
        main_attrs == sections[1] \o <<CRLF>>
    IN  Join(<< Lit("Signature-Version: 1.0"),
                << <<"SHA1-Digest-Manifest: ", B64Encode(SHA1(manifest_content))>> >>,
                << <<"SHA1-Digest-Manifest-Main-Attributes: ", B64Encode(SHA1(main_attrs))>> >>,
                Lit("Created-By: APK Editor Enhanced"),
                DateLine("Signature-Date: ", t),
                EmptyLine >>
             \o SfSections(Tail(sections)))

\* the entries _create_realistic_signed_apk writes to output_zip
SignedEntries(input_zip, t, t2) ==
    LET manifest_content == CreateEnhancedManifestMf(input_zip, t) IN
    CopyEntries(input_zip, t)
    \o EnsureEssentialFiles(input_zip, t)
    \o << Entry(ManifestMF, Text(manifest_content), t, TRUE),
          Entry(CertSF, Text(CreateEnhancedCertSf(manifest_content, t2)), t2, TRUE),
          Entry(CertRSA, CreateEnhancedCertRsa(t2), t2, TRUE) >>

\* APKTool.sign_apk(input_apk, output_apk)
SignApk(input_apk, output_apk) ==
    /\ input_apk # output_apk
    /\ IF apks[input_apk].exists /\ EndRecData(apks[input_apk])
       THEN \E t2 \in now..MaxClock :
               /\ apks' = [apks EXCEPT ![output_apk] =
                              ZipClose(SignedEntries(apks[input_apk], now, t2))]
               /\ now' = t2
               /\ last' = [op |-> "sign", ret |-> TRUE,
                           input |-> input_apk, output |-> output_apk,
                           compile_warnings |-> <<>>]
       ELSE /\ last' = [op |-> "sign", ret |-> FALSE,
                        input |-> input_apk, output |-> output_apk,
                        compile_warnings |-> <<>>]
            /\ UNCHANGED <<apks, now>>
    /\ UNCHANGED <<srcExists, srcTree>>
    /\ UNCHANGED dexVars
    /\ UNCHANGED encVars
    /\ UNCHANGED appVars

\* time passes
Tick ==
    /\ now < MaxClock
    /\ now' = now + 1
    /\ UNCHANGED <<srcExists, srcTree, apks, last>>
    /\ UNCHANGED dexVars
    /\ UNCHANGED encVars
    /\ UNCHANGED appVars

(***************************************************************************)
(* Initial states: a decompiled directory to compile, or an uploaded       *)
(* archive to sign.                                                        *)
(***************************************************************************)
SourceUniverse ==
    { SrcFile(AndroidManifestXml, ManifestText("com.example.modifiedapp"), TRUE),
      SrcFile(AndroidManifestXml, ManifestText("com.acme.shop"), TRUE),
      SrcFile(Path(<<"res", "values">>, "strings", "xml"), Raw(2, 200, 120), TRUE),
      GarbageFile(Path(<<"res", "values">>, "weird", "xml"), Raw(10, 200, 200)),
      SrcFile(Path(<<"res", "drawable">>, "icon", "png"), Raw(3, 900, 900), TRUE),
      SrcFile(Path(<<"res", "raw">>, "notes", "txt"), Raw(4, 80, 70), TRUE),
      SrcFile(Path(<<"assets">>, "data", "bin"), Raw(5, 300, 300), TRUE),
      SrcFile(Path(<<"assets">>, "big", "bin"), Raw(6, 60000, 60000), TRUE),
      SrcFile(Path(<<"assets">>, "locked", "bin"), Raw(7, 10, 10), FALSE),
      SrcFile(Path(<<"lib", "arm">>, "libx", "so"), Raw(8, 5000, 2500), TRUE),
      SrcFile(Path(<<"smali">>, "A", "smali"), Raw(9, 400, 200), TRUE),
      SrcFile(ApktoolYml, Yml(3000000), TRUE) }

InputUniverse ==
    { Entry(AndroidManifestXml, Raw(11, 4, 4), 0, TRUE),
      Entry(AndroidManifestXml, Raw(12, 3000, 900), 0, TRUE),
      Entry(ClassesDex, Raw(13, 5000, 2000), 0, TRUE),
      Entry(ClassesDex, Raw(14, 5000, 2000), 0, FALSE),
      Entry(ResourcesArsc, Raw(15, 4096, 300), 0, TRUE),
      Entry(ManifestMF, Raw(16, 200, 150), 0, TRUE),
      Entry(Path(<<"res", "drawable">>, "icon", "png"), Raw(3, 900, 900), 0, TRUE),
      Entry(Path(<<"res">>, "", ""), Raw(0, 0, 0), 0, TRUE) }

\* the sequences without repetition of at most n elements of S
SeqsUpTo(S, n) ==
    UNION { { s \in [1..k -> S] : \A i, j \in 1..k : i # j => s[i] # s[j] } : k \in 0..n }

\* directories hold one file per path
SourceTrees ==
    { tr \in SeqsUpTo(SourceUniverse, MaxFiles) :
        \A i, j \in 1..Len(tr) : i # j => tr[i].path # tr[j].path }

\* archives hold one entry per path
InputArchives ==
    { ZipClose(es) : es \in
        { s \in SeqsUpTo(InputUniverse, MaxEntries) :
            \A i, j \in 1..Len(s) : i # j => s[i].filename # s[j].filename } }

EncIdle ==
    /\ axmlPc = "idle"
    /\ manifest_data = <<>>
    /\ axmlChunks = <<>>
    /\ arscPc = "idle"
    /\ arsc_data = <<>>
    /\ arscChunks = <<>>

Threads == 1..NumThreads

\* a thread that is handling no request
IdleThread ==
    [pc |-> "idle", route |-> "none", fb |-> "none",
     input |-> "none", snap |-> NoFile, raced |-> FALSE]

\* no request has been made
AppIdle ==
    /\ thr = [t \in Threads |-> IdleThread]
    /\ done = [route |-> "none", path |-> "None"]
    /\ api = [fn |-> "none", tool |-> "none", fallback |-> FALSE, fbret |-> "none",
              ret |-> "none", input |-> "none", output |-> "none"]

\* no section of the image has been written
DexNotStarted ==
    [s \in {"header", "string_ids", "type_ids", "proto_ids", "method_ids",
            "class_defs", "string_data", "map_list"} |-> -1]

DexIdle ==
    /\ dexStart = DexNotStarted
    /\ dexPc = "idle"
    /\ dexTarget = 0
    /\ dex_data = <<>>
    /\ dexChecksum = <<"zero">>
    /\ dexSha1 = <<"zero">>

Init ==
    /\ \/ /\ srcExists = TRUE
          /\ srcTree \in SourceTrees
          /\ apks = [n \in {"in", "compiled", "signed"} |-> NoFile]
       \/ /\ srcExists = FALSE
          /\ srcTree = <<>>
          /\ apks \in { [n \in {"in", "compiled", "signed"} |->
                           IF n = "in" THEN a ELSE NoFile] : a \in InputArchives \cup {NoFile} }
    /\ now = 0
    /\ last = [op |-> "none", ret |-> FALSE, input |-> "none", output |-> "none",
               compile_warnings |-> <<>>]
    /\ DexIdle
    /\ EncIdle
    /\ AppIdle

Next ==
    \/ SimulateCompile("compiled")
    \/ SignApk("compiled", "signed")
    \/ SignApk("in", "signed")
    \/ Tick

Spec == Init /\ [][Next]_vars

(***************************************************************************)
(* Properties of signed archives.                                          *)
(***************************************************************************)
Signed   == last.op = "sign" /\ last.ret
SignedIn  == apks[last.input]
SignedOut == apks[last.output]

\* the stored text of a META-INF entry of archive f
StoredText(f, name) == Read(f, name)[2]

\* positions of the "Name: " lines of a text
NameIdx(text) == {i \in 1..Len(text) : text[i][1] = "Name: "}

\* the bytes of the section that starts at the Name line at i: up to the next
\* Name line, or to the end of the text
SectionAt(text, i) ==
    LET later == {j \in NameIdx(text) : j > i}
        stop  == IF later = {} THEN Len(text) + 1
                 ELSE CHOOSE j \in later : \A k \in later : j <= k
    IN  SubSeq(text, i, stop - 1)

\* the SHA1-Digest values CERT.SF gives for a name
SfDigests(sf, name) ==
    { sf[i + 2][2] : i \in {k \in 1..(Len(sf) - 2) :
                              /\ sf[k] = <<"Name: ", name>>
                              /\ sf[k + 2][1] = "SHA1-Digest: "} }

NonMetaNames(f) == {n \in NameSet(f) : ~StartsWithDir(n, "META-INF")}

\* C1 (as claimed): for every per-entry section of the stored MANIFEST.MF,
\* the last one included, the SHA1-Digest CERT.SF gives for its Name is the
\* SHA-1 of exactly the bytes of that section as stored.
C1_SectionDigestsCoverStoredBytes ==
    Signed =>
        LET mf == StoredText(SignedOut, ManifestMF)
            sf == StoredText(SignedOut, CertSF)
        IN  \A i \in NameIdx(mf) :
                SfDigests(sf, mf[i][2]) = {B64Encode(SHA1(SectionAt(mf, i)))}

\* C2 (as claimed): for every section "Name: p" of MANIFEST.MF, its SHA1-Digest
\* and SHA-256-Digest are the digests of the bytes stored under p in the same
\* signed archive.
C2_EntryDigestsCoverStoredBytes ==
    Signed =>
        LET mf == StoredText(SignedOut, ManifestMF) IN
        \A i \in NameIdx(mf) :
            /\ mf[i][2] \in NameSet(SignedOut)
            /\ mf[i + 2] = <<"SHA1-Digest: ", B64Encode(SHA1(Read(SignedOut, mf[i][2])))>>
            /\ mf[i + 4] = <<"SHA-256-Digest: ", B64Encode(SHA256(Read(SignedOut, mf[i][2])))>>

\* C3 (as claimed): the paths named by MANIFEST.MF sections are exactly the
\* non-META-INF entries of the signed archive, one section per entry.
C3_OneSectionPerEntry ==
    Signed =>
        LET mf == StoredText(SignedOut, ManifestMF) IN
        /\ {mf[i][2] : i \in NameIdx(mf)} = NonMetaNames(SignedOut)
        /\ \A i, j \in NameIdx(mf) : i # j => mf[i][2] # mf[j][2]

\* C4: the SHA1-Digest-Manifest value of the stored CERT.SF is the base64
\* SHA-1 of exactly the bytes stored as META-INF/MANIFEST.MF in that archive.
C4_ManifestDigestMatches ==
    Signed =>
        LET mf == StoredText(SignedOut, ManifestMF)
            sf == StoredText(SignedOut, CertSF)
            at == {i \in 1..Len(sf) : sf[i][1] = "SHA1-Digest-Manifest: "}
        IN  /\ at # {}
            /\ \A i \in at : sf[i][2] = B64Encode(SHA1(mf))

\* a signed archive whose manifest has per-entry sections
C4_Witness ==
    /\ Signed
    /\ NameIdx(StoredText(SignedOut, ManifestMF)) # {}

\* C8 (as claimed): every archive for which sign_apk returns True contains
\* AndroidManifest.xml, classes.dex and resources.arsc.
C8_EssentialFilesPresent ==
    Signed => {AndroidManifestXml, ClassesDex, ResourcesArsc} \subseteq NameSet(SignedOut)

\* C9: no META-INF/ entry is carried over from the input; exactly three
\* META-INF/ entries exist and they are the last three entries, in the order
\* MANIFEST.MF, CERT.SF, CERT.RSA.
C9_MetaInfLastThree ==
    Signed =>
        LET es == SignedOut.entries
            n  == Len(es)
        IN  /\ n >= 3
            /\ es[n - 2].filename = ManifestMF
            /\ es[n - 1].filename = CertSF
            /\ es[n].filename = CertRSA
            /\ \A i \in 1..(n - 3) : ~StartsWithDir(es[i].filename, "META-INF")
            /\ es[n - 2].data[1] = "text"
            /\ es[n - 1].data[1] = "text"
            /\ es[n].data[1] = "rsa"

\* a signed archive whose input carried a META-INF/ entry and other entries
C9_Witness ==
    /\ Signed
    /\ \E i \in 1..Len(SignedIn.entries) : StartsWithDir(SignedIn.entries[i].filename, "META-INF")
    /\ Len(SignedOut.entries) > 3

(***************************************************************************)
(* Properties of compiled archives.                                        *)
(***************************************************************************)
Compiled    == last.op = "compile" /\ last.ret
CompiledOut == apks[last.output]

\* C6 (as claimed): the file left by the built-in compile can be re-opened
\* as a ZIP (its end-of-central-directory record is found) and lists the
\* entries that were written.
C6_CompiledArchiveReopens ==
    Compiled =>
        /\ EndRecData(CompiledOut)
        /\ LET written == CompileEntries(srcTree, OriginalSize(srcTree), 0) IN
           Namelist(CompiledOut) = [i \in 1..Len(written) |-> written[i].filename]

UnderPackagedDir(path) ==
    \/ StartsWithDir(path, "res")
    \/ StartsWithDir(path, "assets")
    \/ StartsWithDir(path, "lib")

IsResXml(path) == StartsWithDir(path, "res") /\ path.ext = "xml"

HasEntryWithBytes(f, path, data) ==
    \E i \in 1..Len(f.entries) : f.entries[i].filename = path /\ f.entries[i].data = data

\* C10 (as claimed): every regular file of the source directory other than
\* AndroidManifest.xml and the .xml files under res/ has an entry at its
\* relative path with its bytes, also the files outside res/, assets/, lib/.
C10_EveryFileCopied ==
    Compiled =>
        \A k \in 1..Len(srcTree) :
            (srcTree[k].path # AndroidManifestXml /\ ~IsResXml(srcTree[k].path))
            => HasEntryWithBytes(CompiledOut, srcTree[k].path, srcTree[k].data)

\* C10 (amended): every readable regular file under res/ (other than .xml
\* files), assets/ or lib/ has an entry at its relative path with its bytes;
\* files under any other path of the tree are not copied into the archive.
C10_PackagedFilesCopied ==
    Compiled =>
        \A k \in 1..Len(srcTree) :
            LET f == srcTree[k] IN
            /\ (UnderPackagedDir(f.path) /\ ~IsResXml(f.path) /\ f.ok)
               => HasEntryWithBytes(CompiledOut, f.path, f.data)
            /\ (~UnderPackagedDir(f.path)
                /\ f.path \notin {AndroidManifestXml, ClassesDex, ResourcesArsc})
               => f.path \notin NameSet(CompiledOut)

\* a compile of a tree with a readable packaged file and a file elsewhere
C10_Witness ==
    /\ Compiled
    /\ \E k \in 1..Len(srcTree) :
          /\ UnderPackagedDir(srcTree[k].path) /\ ~IsResXml(srcTree[k].path) /\ srcTree[k].ok
          /\ HasEntryWithBytes(CompiledOut, srcTree[k].path, srcTree[k].data)
    /\ \E k \in 1..Len(srcTree) :
          /\ ~UnderPackagedDir(srcTree[k].path)
          /\ srcTree[k].path # AndroidManifestXml

\* the warnings of the last operation that name path
WarningsFor(path) == { i \in 1..Len(last.compile_warnings) : last.compile_warnings[i][2] = path }

\* C11 (as claimed): when a .xml file under res/ cannot be decoded, the
\* compile returns True, the archive has no entry for that file, every other
\* packaged file is included, and exactly one warning names that path.
C11_UndecodableXmlDropped ==
    (last.op = "compile" /\ srcExists) =>
        \A k \in 1..Len(srcTree) :
            (IsResXml(srcTree[k].path) /\ ~srcTree[k].decodes) =>
                /\ last.ret
                /\ srcTree[k].path \notin NameSet(CompiledOut)
                /\ \A j \in 1..Len(srcTree) :
                       (j # k /\ UnderPackagedDir(srcTree[j].path) /\ srcTree[j].ok)
                       => srcTree[j].path \in NameSet(CompiledOut)
                /\ Cardinality(WarningsFor(srcTree[k].path)) = 1

\* C12 (as claimed): when the source directory does not exist the compile
\* returns False and no output archive is written.
C12_MissingSourceFails ==
    (last.op = "compile" /\ ~srcExists) =>
        /\ ~last.ret
        /\ ~apks[last.output].exists

\* C13 (as claimed): a compile of an existing directory without files
\* returns True and writes exactly two entries, classes.dex and
\* resources.arsc.
C13_EmptyDirTwoEntries ==
    (last.op = "compile" /\ srcExists /\ srcTree = <<>>) =>
        /\ last.ret
        /\ Namelist(CompiledOut) = <<ClassesDex, ResourcesArsc>>

\* C13 (amended): a compile of an existing directory without files returns
\* True, logs no warning and writes exactly three entries: an
\* AndroidManifest.xml holding the default binary manifest, then classes.dex,
\* then resources.arsc.
C13_EmptyDirThreeEntries ==
    (last.op = "compile" /\ srcExists /\ srcTree = <<>>) =>
        /\ last.ret
        /\ last.compile_warnings = <<>>
        /\ Namelist(CompiledOut) = <<AndroidManifestXml, ClassesDex, ResourcesArsc>>
        /\ Read(CompiledOut, AndroidManifestXml) = CreateBinaryManifestDefault

\* an existing directory without files has been compiled
C13_Witness ==
    /\ last.op = "compile" /\ last.ret
    /\ srcExists /\ srcTree = <<>>
    /\ CompiledOut.exists /\ Len(CompiledOut.entries) = 3

(***************************************************************************)
(* The DEX encoder, _create_realistic_dex(target_size), step by step.      *)
(* dex_data holds the bytearray; the 4 bytes at checksum_pos and the 20    *)
(* bytes at sha1_pos stay zero in dex_data and their values are kept in    *)
(* dexChecksum and dexSha1, because digests are symbolic.                  *)
(***************************************************************************)
\* n.to_bytes(w, 'little')
RECURSIVE Pow256(_)
Pow256(k) == IF k = 0 THEN 1 ELSE 256 * Pow256(k - 1)

ToBytes(n, w) == [i \in 1..w |-> (n \div Pow256(i - 1)) % 256]

U32(n) == ToBytes(n, 4)
U16(n) == ToBytes(n, 2)

Zeros(n) == [i \in 1..n |-> 0]

\* the value of a digest field that still holds its zero placeholder
ZeroBytes == <<"zero">>

DexMagic == <<100, 101, 120, 10, 48, 51, 57, 0>>

string_ids_size == 20
type_ids_size   == 10
proto_ids_size  == 5
field_ids_size  == 0
method_ids_size == 5
class_defs_size == 1

string_ids_off == 112
type_ids_off_Wide == string_ids_off + string_ids_size * 8
type_ids_off   == string_ids_off + string_ids_size * 4
proto_ids_off  == type_ids_off + type_ids_size * 4
field_ids_off  == 0
method_ids_off == proto_ids_off + proto_ids_size * 12
class_defs_off == method_ids_off + method_ids_size * 8
data_off       == class_defs_off + class_defs_size * 32

file_size == DexBaseSize(dexTarget)
map_off   == file_size - 32
data_size == map_off - data_off

\* while len(dex_data) < n: dex_data.append(0x00)
PadTo(data, n) == IF Len(data) < n THEN data \o Zeros(n - Len(data)) ELSE data

\* while len(dex_data) % 4 != 0: dex_data.append(0x00)
Align4(data) == data \o Zeros((4 - (Len(data) % 4)) % 4)

\* magic, digest placeholders and the header fields, padded to 0x70 bytes
DexHeaderBytes ==
    PadTo(DexMagic \o Zeros(4) \o Zeros(20)
          \o U32(file_size) \o U32(112) \o U32(305419896)
          \o U32(0) \o U32(0)
          \o U32(map_off)
          \o U32(string_ids_size) \o U32(string_ids_off)
          \o U32(type_ids_size) \o U32(type_ids_off)
          \o U32(proto_ids_size) \o U32(proto_ids_off)
          \o U32(field_ids_size) \o U32(field_ids_off)
          \o U32(method_ids_size) \o U32(method_ids_off)
          \o U32(class_defs_size) \o U32(class_defs_off)
          \o U32(data_size) \o U32(data_off), 112)

StringIdItem(i) == U32(data_off + i * 16)
TypeIdItem_Past(i) == U32(string_ids_size + i)
TypeIdItem(i)   == U32(i % string_ids_size)
ProtoIdItem(i)  == U32(i % string_ids_size) \o U32(0) \o U32(0)
MethodIdItem(i) == U16(i % type_ids_size) \o U16(i % proto_ids_size) \o U32(i % string_ids_size)
ClassDefItem(i) == U32(i % type_ids_size) \o U32(1) \o U32(0) \o U32(0)
                   \o U32(0) \o U32(0) \o U32(0) \o U32(0)

common_strings ==
    << <<76, 106, 97, 118, 97, 47, 108, 97, 110, 103, 47, 79, 98, 106, 101, 99, 116, 59>>,
       <<60, 105, 110, 105, 116, 62>>,
       <<40, 41, 86>>,
       <<116, 111, 83, 116, 114, 105, 110, 103>>,
       <<77, 97, 105, 110, 65, 99, 116, 105, 118, 105, 116, 121>>,
       <<111, 110, 67, 108, 105, 99, 107>>,
       <<111, 110, 67, 114, 101, 97, 116, 101>>,
       <<76, 97, 110, 100, 114, 111, 105, 100, 47, 97, 112, 112, 47, 65, 99, 116, 105, 118,
         105, 116, 121, 59>>,
       <<76, 97, 110, 100, 114, 111, 105, 100, 47, 118, 105, 101, 119, 47, 86, 105, 101, 119, 59>>,
       <<76, 97, 110, 100, 114, 111, 105, 100, 47, 99, 111, 110, 116, 101, 110, 116, 47, 67,
         111, 110, 116, 101, 120, 116, 59>> >>

\* common_strings[:string_ids_size]
CommonStringsUsed ==
    SubSeq(common_strings, 1,
           IF Len(common_strings) < string_ids_size THEN Len(common_strings) ELSE string_ids_size)

\* the string data loop, from string number k on
RECURSIVE AppendStrings(_, _)
AppendStrings(data, k) ==
    IF k > Len(CommonStringsUsed) THEN data
    ELSE AppendStrings(
            Align4(data \o <<Len(CommonStringsUsed[k])>> \o CommonStringsUsed[k] \o <<0>>),
            k + 1)

MapListBytes ==
    U32(8)
    \o U16(0) \o U16(0) \o U32(1) \o U32(0)
    \o U16(4096) \o U16(0) \o U32(string_ids_size) \o U32(string_ids_off)

\* dex_data[12:] as the checksum sees it: the signature field, then the rest
ChecksumData(sha1_field, data) == <<sha1_field, SubSeq(data, 33, Len(data))>>

\* dex_data[12:]: a signature taken from the start of the signature field
Sha1Data_FromSignature(data) == SubSeq(data, 13, Len(data))

\* dex_data[32:]
Sha1Data(data) == SubSeq(data, 33, Len(data))

DexTargets == {k * 2048 : k \in 0..MaxTargetK}

DexStep(from, to, data) ==
    /\ dexPc = from
    /\ dexPc' = to
    /\ dex_data' = data
    /\ dexStart' = [dexStart EXCEPT ![from] = Len(dex_data)]
    /\ UNCHANGED <<dexTarget, dexChecksum, dexSha1>>
    /\ UNCHANGED pkgVars
    /\ UNCHANGED encVars
    /\ UNCHANGED appVars

DexBegin ==
    /\ dexPc = "idle"
    /\ \E target_size \in DexTargets : dexTarget' = target_size
    /\ dexPc' = "header"
    /\ dex_data' = <<>>
    /\ dexChecksum' = ZeroBytes
    /\ dexSha1' = ZeroBytes
    /\ dexStart' = DexNotStarted
    /\ UNCHANGED pkgVars
    /\ UNCHANGED encVars
    /\ UNCHANGED appVars

DexWriteHeader    == DexStep("header", "string_ids", DexHeaderBytes)
DexWriteStringIds == DexStep("string_ids", "type_ids",
                             dex_data \o Flatten([i \in 1..string_ids_size |-> StringIdItem(i - 1)]))
DexWriteTypeIds   == DexStep("type_ids", "proto_ids",
                             dex_data \o Flatten([i \in 1..type_ids_size |-> TypeIdItem(i - 1)]))
DexWriteProtoIds  == DexStep("proto_ids", "method_ids",
                             dex_data \o Flatten([i \in 1..proto_ids_size |-> ProtoIdItem(i - 1)]))
DexWriteMethodIds == DexStep("method_ids", "class_defs",
                             dex_data \o Flatten([i \in 1..method_ids_size |-> MethodIdItem(i - 1)]))
DexWriteClassDefs == DexStep("class_defs", "string_data",
                             PadTo(dex_data \o Flatten([i \in 1..class_defs_size |-> ClassDefItem(i - 1)]), data_off))
DexWriteStringData == DexStep("string_data", "map_list",
                              PadTo(AppendStrings(dex_data, 1), map_off))
DexWriteMapList   == DexStep("map_list", "checksum",
                             PadTo(dex_data \o MapListBytes, file_size))

\* adler32 over dex_data[12:], stored at checksum_pos
DexUpdateChecksum ==
    /\ dexPc = "checksum"
    /\ dexChecksum' = Adler32(ChecksumData(dexSha1, dex_data))
    /\ dexPc' = "signature"
    /\ UNCHANGED <<dexTarget, dex_data, dexSha1, dexStart>>
    /\ UNCHANGED pkgVars
    /\ UNCHANGED encVars
    /\ UNCHANGED appVars

\* sha1 over dex_data[32:], stored at sha1_pos
DexUpdateSignature ==
    /\ dexPc = "signature"
    /\ dexSha1' = SHA1(Sha1Data(dex_data))
    /\ dexPc' = "return"
    /\ UNCHANGED <<dexTarget, dex_data, dexChecksum, dexStart>>
    /\ UNCHANGED pkgVars
    /\ UNCHANGED encVars
    /\ UNCHANGED appVars

\* return bytes(dex_data[:file_size])
DexReturn ==
    /\ dexPc = "return"
    /\ dex_data' = SubSeq(dex_data, 1, IF Len(dex_data) < file_size THEN Len(dex_data) ELSE file_size)
    /\ dexPc' = "done"
    /\ UNCHANGED <<dexTarget, dexChecksum, dexSha1, dexStart>>
    /\ UNCHANGED pkgVars
    /\ UNCHANGED encVars
    /\ UNCHANGED appVars

InitDex ==
    /\ srcExists = FALSE
    /\ srcTree = <<>>
    /\ apks = [n \in {"in", "compiled", "signed"} |-> NoFile]
    /\ now = 0
    /\ last = [op |-> "none", ret |-> FALSE, input |-> "none", output |-> "none",
               compile_warnings |-> <<>>]
    /\ DexIdle
    /\ EncIdle
    /\ AppIdle

NextDex ==
    \/ DexBegin
    \/ DexWriteHeader
    \/ DexWriteStringIds
    \/ DexWriteTypeIds
    \/ DexWriteProtoIds
    \/ DexWriteMethodIds
    \/ DexWriteClassDefs
    \/ DexWriteStringData
    \/ DexWriteMapList
    \/ DexUpdateChecksum
    \/ DexUpdateSignature
    \/ DexReturn

SpecDex == InitDex /\ [][NextDex]_vars

\* C5 (as claimed): the checksum stored at offset 8 of the returned image is
\* the Adler-32 of bytes [12, end) of that image, the final value of the
\* signature field at offsets 12..31 included.
C5_ChecksumCoversFinalImage ==
    dexPc = "done" => dexChecksum = Adler32(ChecksumData(dexSha1, dex_data))

(***************************************************************************)
(* The binary XML and resource table encoders,                             *)
(* _create_binary_manifest_default() and _create_resources_arsc(), step by *)
(* step.  manifest_data and arsc_data hold the bytearrays; axmlChunks and  *)
(* arscChunks record, for each chunk, the offset where its first byte was  *)
(* emitted and the number of bytes emitted for it.                         *)
(***************************************************************************)
\* string.encode('utf-8') for the strings of the program and of the inputs
Utf8(s) ==
    CASE s = "manifest" ->
           <<109, 97, 110, 105, 102, 101, 115, 116>>
      [] s = "android" ->
           <<97, 110, 100, 114, 111, 105, 100>>
      [] s = "http://schemas.android.com/apk/res/android" ->
           <<104, 116, 116, 112, 58, 47, 47, 115, 99, 104, 101, 109, 97, 115, 46, 97, 110, 100, 114, 111, 105, 100, 46, 99, 111, 109, 47, 97, 112, 107, 47, 114, 101, 115, 47, 97, 110, 100, 114, 111, 105, 100>>
      [] s = "package" ->
           <<112, 97, 99, 107, 97, 103, 101>>
      [] s = "com.example.modifiedapp" ->
           <<99, 111, 109, 46, 101, 120, 97, 109, 112, 108, 101, 46, 109, 111, 100, 105, 102, 105, 101, 100, 97, 112, 112>>
      [] s = "versionCode" ->
           <<118, 101, 114, 115, 105, 111, 110, 67, 111, 100, 101>>
      [] s = "versionName" ->
           <<118, 101, 114, 115, 105, 111, 110, 78, 97, 109, 101>>
      [] s = "compileSdkVersion" ->
           <<99, 111, 109, 112, 105, 108, 101, 83, 100, 107, 86, 101, 114, 115, 105, 111, 110>>
      [] s = "compileSdkVersionCodename" ->
           <<99, 111, 109, 112, 105, 108, 101, 83, 100, 107, 86, 101, 114, 115, 105, 111, 110, 67, 111, 100, 101, 110, 97, 109, 101>>
      [] s = "platformBuildVersionCode" ->
           <<112, 108, 97, 116, 102, 111, 114, 109, 66, 117, 105, 108, 100, 86, 101, 114, 115, 105, 111, 110, 67, 111, 100, 101>>
      [] s = "platformBuildVersionName" ->
           <<112, 108, 97, 116, 102, 111, 114, 109, 66, 117, 105, 108, 100, 86, 101, 114, 115, 105, 111, 110, 78, 97, 109, 101>>
      [] s = "uses-sdk" ->
           <<117, 115, 101, 115, 45, 115, 100, 107>>
      [] s = "minSdkVersion" ->
           <<109, 105, 110, 83, 100, 107, 86, 101, 114, 115, 105, 111, 110>>
      [] s = "targetSdkVersion" ->
           <<116, 97, 114, 103, 101, 116, 83, 100, 107, 86, 101, 114, 115, 105, 111, 110>>
      [] s = "application" ->
           <<97, 112, 112, 108, 105, 99, 97, 116, 105, 111, 110>>
      [] s = "allowBackup" ->
           <<97, 108, 108, 111, 119, 66, 97, 99, 107, 117, 112>>
      [] s = "icon" ->
           <<105, 99, 111, 110>>
      [] s = "label" ->
           <<108, 97, 98, 101, 108>>
      [] s = "theme" ->
           <<116, 104, 101, 109, 101>>
      [] s = "activity" ->
           <<97, 99, 116, 105, 118, 105, 116, 121>>
      [] s = "name" ->
           <<110, 97, 109, 101>>
      [] s = ".MainActivity" ->
           <<46, 77, 97, 105, 110, 65, 99, 116, 105, 118, 105, 116, 121>>
      [] s = "exported" ->
           <<101, 120, 112, 111, 114, 116, 101, 100>>
      [] s = "intent-filter" ->
           <<105, 110, 116, 101, 110, 116, 45, 102, 105, 108, 116, 101, 114>>
      [] s = "action" ->
           <<97, 99, 116, 105, 111, 110>>
      [] s = "category" ->
           <<99, 97, 116, 101, 103, 111, 114, 121>>
      [] s = "app_name" ->
           <<97, 112, 112, 95, 110, 97, 109, 101>>
      [] s = "Modified App" ->
           <<77, 111, 100, 105, 102, 105, 101, 100, 32, 65, 112, 112>>
      [] s = "button_text" ->
           <<98, 117, 116, 116, 111, 110, 95, 116, 101, 120, 116>>
      [] s = "Click Me" ->
           <<67, 108, 105, 99, 107, 32, 77, 101>>
      [] s = "activity_main" ->
           <<97, 99, 116, 105, 118, 105, 116, 121, 95, 109, 97, 105, 110>>
      [] s = "MainActivity" ->
           <<77, 97, 105, 110, 65, 99, 116, 105, 118, 105, 116, 121>>
      [] s = "string" ->
           <<115, 116, 114, 105, 110, 103>>
      [] s = "com.acme.shop" ->
           <<99, 111, 109, 46, 97, 99, 109, 101, 46, 115, 104, 111, 112>>

\* string.encode('utf-16le') of an ASCII string
Utf16le(s) == Flatten([i \in 1..Len(Utf8(s)) |-> <<Utf8(s)[i], 0>>])

\* int.from_bytes(data[pos:pos+4], 'little')
LE32(data, pos) ==
    data[pos + 1] + 256 * data[pos + 2] + 65536 * data[pos + 3] + 16777216 * data[pos + 4]

\* data[pos:pos+len(bytes)] = bytes
Patch(data, pos, bytes) ==
    [i \in 1..Len(data) |->
        IF i > pos /\ i <= pos + Len(bytes) THEN bytes[i - pos] ELSE data[i]]

\* the offset of string i (from 0) in the string data: each string takes a
\* length byte, its bytes and a NUL
RECURSIVE StringOffset(_, _)
StringOffset(strs, i) ==
    IF i = 0 THEN 0
    ELSE StringOffset(strs, i - 1) + 1 + Len(Utf8(strs[i])) + 1

StringOffsets(strs) == Flatten([i \in 1..Len(strs) |-> U32(StringOffset(strs, i - 1))])

StringData(strs) ==
    Flatten([i \in 1..Len(strs) |-> <<Len(Utf8(strs[i]))>> \o Utf8(strs[i]) \o <<0>>])

manifest_header == <<3, 0, 8, 0,  140, 4, 0, 0>>

strings ==
    <<"manifest", "android", "http://schemas.android.com/apk/res/android",
      "package", "com.example.modifiedapp", "versionCode", "versionName",
      "compileSdkVersion", "compileSdkVersionCodename",
      "platformBuildVersionCode", "platformBuildVersionName", "uses-sdk",
      "minSdkVersion", "targetSdkVersion", "application", "allowBackup",
      "icon", "label", "theme", "activity", "name", ".MainActivity",
      "exported", "intent-filter", "action", "category">>

\* the string pool chunk: header, offsets, string data, padded to 4 bytes
string_pool ==
    Align4(<<1, 0, 28, 0,  68, 1, 0, 0,  26, 0, 0, 0,  0, 0, 0, 0,
             0, 1, 0, 0,  136, 0, 0, 0,  0, 0, 0, 0>>
           \o StringOffsets(strings)
           \o StringData(strings))

\* 0x01010003, 0x0101021c, ... as integers
android_attrs ==
    <<16842755, 16843292, 16843291, 16844146, 16844147, 16843276,
      16843376, 16842764, 16842781, 16842753, 16842752, 16842782>>

resource_ids ==
    <<128, 1, 8, 0,  56, 0, 0, 0>>
    \o Flatten([i \in 1..Len(android_attrs) |-> U32(android_attrs[i])])

start_ns ==
    <<0, 1, 16, 0,  24, 0, 0, 0,  2, 0, 0, 0,  255, 255, 255, 255,
      1, 0, 0, 0,  2, 0, 0, 0>>

manifest_attrs ==
    << <<1, 0, 0, 0,  3, 0, 0, 0,  4, 0, 0, 0,
         8, 0, 0, 0,  0, 0, 0, 0,  4, 0, 0, 0>>,
       <<1, 0, 0, 0,  5, 0, 0, 0,  255, 255, 255, 255,
         8, 0, 0, 0,  0, 0, 16, 0,  1, 0, 0, 0>>,
       <<1, 0, 0, 0,  6, 0, 0, 0,  6, 0, 0, 0,
         8, 0, 0, 0,  0, 0, 0, 0,  6, 0, 0, 0>> >>

manifest_elem ==
    <<2, 1, 16, 0,  228, 0, 0, 0,  3, 0, 0, 0,  255, 255, 255, 255,
      255, 255, 255, 255,  0, 0, 0, 0,  20, 0,  20, 0,  9, 0,  0, 0,  0, 0,  0, 0>>
    \o Flatten(manifest_attrs)

app_elem == Patch(Patch(Zeros(256), 0, <<2, 1, 16, 0>>), 4, <<132, 0, 0, 0>>)

activity_elem == Patch(Zeros(512), 0, <<2, 1, 16, 0>>)

end_elems == Zeros(128)

\* manifest_data.extend(chunk)
AxmlExtend(from, to, name, chunk) ==
    /\ axmlPc = from
    /\ axmlPc' = to
    /\ manifest_data' = manifest_data \o chunk
    /\ axmlChunks' = Append(axmlChunks, [name |-> name, start |-> Len(manifest_data), len |-> Len(chunk)])
    /\ UNCHANGED <<arscPc, arsc_data, arscChunks>>
    /\ UNCHANGED pkgVars
    /\ UNCHANGED dexVars
    /\ UNCHANGED appVars

AxmlBegin ==
    /\ axmlPc = "idle"
    /\ axmlPc' = "header"
    /\ manifest_data' = <<>>
    /\ axmlChunks' = <<>>
    /\ UNCHANGED <<arscPc, arsc_data, arscChunks>>
    /\ UNCHANGED pkgVars
    /\ UNCHANGED dexVars
    /\ UNCHANGED appVars

AxmlExtendHeader ==
    /\ axmlPc = "header"
    /\ axmlPc' = "string_pool"
    /\ manifest_data' = manifest_data \o manifest_header
    /\ UNCHANGED <<axmlChunks, arscPc, arsc_data, arscChunks>>
    /\ UNCHANGED pkgVars
    /\ UNCHANGED dexVars
    /\ UNCHANGED appVars

\* end_elems is 128 zero bytes: no chunk header is emitted for it
AxmlExtendEndElems ==
    /\ axmlPc = "end_elems"
    /\ axmlPc' = "pad"
    /\ manifest_data' = manifest_data \o end_elems
    /\ UNCHANGED <<axmlChunks, arscPc, arsc_data, arscChunks>>
    /\ UNCHANGED pkgVars
    /\ UNCHANGED dexVars
    /\ UNCHANGED appVars

AxmlPad ==
    /\ axmlPc = "pad"
    /\ axmlPc' = "file_size"
    /\ manifest_data' = PadTo(manifest_data, 2048)
    /\ UNCHANGED <<axmlChunks, arscPc, arsc_data, arscChunks>>
    /\ UNCHANGED pkgVars
    /\ UNCHANGED dexVars
    /\ UNCHANGED appVars

\* manifest_data[4:8] = file_size.to_bytes(4, 'little'); return
AxmlUpdateFileSize ==
    /\ axmlPc = "file_size"
    /\ axmlPc' = "done"
    /\ manifest_data' = Patch(manifest_data, 4, U32(Len(manifest_data)))
    /\ UNCHANGED <<axmlChunks, arscPc, arsc_data, arscChunks>>
    /\ UNCHANGED pkgVars
    /\ UNCHANGED dexVars
    /\ UNCHANGED appVars

resource_strings ==
    <<"app_name", "Modified App", "button_text", "Click Me", "activity_main",
      "MainActivity", "android", "string">>

package_name == "com.example.modifiedapp"

\* package_start: the length of arsc_data when the string pool was complete
package_start == arscChunks[1].start + arscChunks[1].len

ArscStep(from, to, data, chunks) ==
    /\ arscPc = from
    /\ arscPc' = to
    /\ arsc_data' = data
    /\ arscChunks' = chunks
    /\ UNCHANGED <<axmlPc, manifest_data, axmlChunks>>
    /\ UNCHANGED pkgVars
    /\ UNCHANGED dexVars
    /\ UNCHANGED appVars

ArscBegin == ArscStep("idle", "header", <<>>, <<>>)

\* table header: type, header size, size placeholder, package count
ArscWriteHeader ==
    ArscStep("header", "string_pool",
             arsc_data \o <<2, 0,  12, 0>> \o <<0, 0, 0, 0>> \o <<1, 0, 0, 0>>,
             arscChunks)

\* global string pool up to the alignment; strings_start_pos is taken from
\* the length of arsc_data after the flags
ArscWriteStringPool ==
    LET string_count == Len(resource_strings)
        head == arsc_data \o <<1, 0,  28, 0>> \o <<0, 0, 0, 0>>
                \o U32(string_count) \o <<0, 0, 0, 0>> \o <<0, 1, 0, 0>>
        strings_start_pos == Len(head) + 4 + (string_count * 4)
    IN  ArscStep("string_pool", "pool_size",
                 Align4(head \o U32(strings_start_pos) \o <<0, 0, 0, 0>>
                        \o StringOffsets(resource_strings)
                        \o StringData(resource_strings)),
                 arscChunks)

ArscUpdatePoolSize ==
    LET string_pool_start == 12
        pool_size_pos == string_pool_start + 4
        pool_size == Len(arsc_data) - string_pool_start
    IN
    ArscStep("pool_size", "package",
             Patch(arsc_data, pool_size_pos, U32(pool_size)),
             Append(arscChunks, [name |-> "string_pool", start |-> string_pool_start, len |-> pool_size]))

\* while len(arsc_data) - package_start - 16 < 256: arsc_data.extend([0, 0])
RECURSIVE PadPackageName(_, _)
PadPackageName(data, start) ==
    IF Len(data) - start - 16 < 256
    THEN PadPackageName(data \o <<0, 0>>, start)
    ELSE data

\* package header: type, header size, size placeholder, id, name, 5 words
ArscWritePackage ==
    ArscStep("package", "type_spec",
             PadPackageName(arsc_data \o <<0, 2,  32, 1>> \o <<0, 0, 0, 0>>
                            \o <<127, 0, 0, 0>> \o Utf16le(package_name),
                            Len(arsc_data))
             \o Zeros(20),
             arscChunks)

type_spec ==
    <<2, 2,  16, 0,  32, 0, 0, 0,  1,  0, 0, 0,  2, 0, 0, 0>>
    \o <<0, 0, 0, 0>> \o <<0, 0, 0, 0>>

type_chunk ==
    <<1, 2,  92, 0,  128, 0, 0, 0,  1,  0, 0, 0,  2, 0, 0, 0,  104, 0, 0, 0>>
    \o Zeros(64)
    \o <<0, 0, 0, 0>> \o <<8, 0, 0, 0>>
    \o <<8, 0,  0, 0,  1, 0, 0, 0>>
    \o <<8, 0,  0, 0,  3, 0, 0, 0>>

ArscWriteTypeSpec ==
    ArscStep("type_spec", "type", arsc_data \o type_spec,
             Append(arscChunks, [name |-> "type_spec", start |-> Len(arsc_data), len |-> Len(type_spec)]))

ArscWriteType ==
    ArscStep("type", "package_size", arsc_data \o type_chunk,
             Append(arscChunks, [name |-> "type", start |-> Len(arsc_data), len |-> Len(type_chunk)]))

ArscUpdatePackageSize ==
    LET package_size_pos == package_start + 4
        package_size == Len(arsc_data) - package_start
    IN
    ArscStep("package_size", "total_size",
             Patch(arsc_data, package_size_pos, U32(package_size)),
             Append(arscChunks, [name |-> "package", start |-> package_start, len |-> package_size]))

ArscUpdateTotalSize ==
    ArscStep("total_size", "pad",
             Patch(arsc_data, 4, U32(Len(arsc_data))), arscChunks)

\* while len(arsc_data) < 4096: arsc_data.append(0); return
ArscPad == ArscStep("pad", "done", PadTo(arsc_data, 4096), arscChunks)

InitEnc ==
    /\ srcExists = FALSE
    /\ srcTree = <<>>
    /\ apks = [n \in {"in", "compiled", "signed"} |-> NoFile]
    /\ now = 0
    /\ last = [op |-> "none", ret |-> FALSE, input |-> "none", output |-> "none",
               compile_warnings |-> <<>>]
    /\ DexIdle
    /\ EncIdle
    /\ AppIdle

NextEnc ==
    \/ AxmlBegin
    \/ AxmlExtendHeader
    \/ AxmlExtend("string_pool", "resource_ids", "string_pool", string_pool)
    \/ AxmlExtend("resource_ids", "start_ns", "resource_ids", resource_ids)
    \/ AxmlExtend("start_ns", "manifest_elem", "start_ns", start_ns)
    \/ AxmlExtend("manifest_elem", "app_elem", "manifest_elem", manifest_elem)
    \/ AxmlExtend("app_elem", "activity_elem", "app_elem", app_elem)
    \/ AxmlExtend("activity_elem", "end_elems", "activity_elem", activity_elem)
    \/ AxmlExtendEndElems
    \/ AxmlPad
    \/ AxmlUpdateFileSize
    \/ ArscBegin
    \/ ArscWriteHeader
    \/ ArscWriteStringPool
    \/ ArscUpdatePoolSize
    \/ ArscWritePackage
    \/ ArscWriteTypeSpec
    \/ ArscWriteType
    \/ ArscUpdatePackageSize
    \/ ArscUpdateTotalSize
    \/ ArscPad

SpecEnc == InitEnc /\ [][NextEnc]_vars

\* the size field of a chunk header, at offset 4 of the chunk
DeclaredSize(data, chunk) == LE32(data, chunk.start + 4)

\* C14 (as claimed): in the returned binary manifest and in the returned
\* resource table, the size field of every chunk equals the number of bytes
\* emitted for that chunk, its header included.
C14_ChunkSizesMatchEmitted ==
    /\ axmlPc = "done" =>
          \A i \in 1..Len(axmlChunks) :
              DeclaredSize(manifest_data, axmlChunks[i]) = axmlChunks[i].len
    /\ arscPc = "done" =>
          \A i \in 1..Len(arscChunks) :
              DeclaredSize(arsc_data, arscChunks[i]) = arscChunks[i].len

\* C15 (as claimed): the total-size field of the returned resource table
\* equals the length of the returned bytes.
C15_ArscTotalSizeIsLength ==
    arscPc = "done" => LE32(arsc_data, 4) = Len(arsc_data)

\* header fields of a DEX image, by their byte offsets
DexField(data, off) == LE32(data, off)

\* C16: for every target size the header of the returned DEX image describes
\* the image: the header takes 0x70 bytes; the string_ids, type_ids,
\* proto_ids, method_ids and class_defs offsets are where those tables were
\* written, in that order and without gaps; map_off is where the map list was
\* written; file_size is the length of the returned bytes, at least 4096.
C16_DexHeaderDescribesImage ==
    dexPc = "done" =>
        /\ DexField(dex_data, 36) = 112
        /\ dexStart["header"] = 0
        /\ dexStart["string_ids"] = 112
        /\ DexField(dex_data, 60) = dexStart["string_ids"]
        /\ DexField(dex_data, 68) = dexStart["type_ids"]
        /\ DexField(dex_data, 76) = dexStart["proto_ids"]
        /\ DexField(dex_data, 92) = dexStart["method_ids"]
        /\ DexField(dex_data, 100) = dexStart["class_defs"]
        /\ dexStart["type_ids"] = dexStart["string_ids"] + 4 * DexField(dex_data, 56)
        /\ dexStart["proto_ids"] = dexStart["type_ids"] + 4 * DexField(dex_data, 64)
        /\ dexStart["method_ids"] = dexStart["proto_ids"] + 12 * DexField(dex_data, 72)
        /\ dexStart["class_defs"] = dexStart["method_ids"] + 8 * DexField(dex_data, 88)
        /\ DexField(dex_data, 52) = dexStart["map_list"]
        /\ DexField(dex_data, 32) = Len(dex_data)
        /\ Len(dex_data) >= 4096

\* an image returned for a target size below 16384, with its map list written
C16_Witness ==
    /\ dexPc = "done"
    /\ dexTarget < 16384
    /\ Len(dex_data) = 4096
    /\ dexStart["map_list"] = 4064

\* C17: the signature stored at offset 12 of the returned DEX image is the
\* SHA-1 of bytes [32, end) of that image.
C17_SignatureCoversImageTail ==
    dexPc = "done" => dexSha1 = SHA1(SubSeq(dex_data, 33, Len(dex_data)))

\* an image has been returned with its signature field filled in
C17_Witness ==
    /\ dexPc = "done"
    /\ dexSha1 # ZeroBytes
    /\ Len(dex_data) > 4096

\* int.from_bytes(data[pos:pos+2], 'little')
LE16(data, pos) == data[pos + 1] + 256 * data[pos + 2]

\* C18: in the returned DEX image every type_id's string index, every
\* proto_id's shorty_idx and every method_id's name_idx is below
\* string_ids_size, every method_id's and class_def's class_idx is below
\* type_ids_size, and every method_id's proto_idx is below proto_ids_size,
\* the sizes and table offsets being those of the header.
C18_DexIndicesInBounds ==
    dexPc = "done" =>
        LET nStr   == DexField(dex_data, 56)
            nType  == DexField(dex_data, 64)
            tOff   == DexField(dex_data, 68)
            nProto == DexField(dex_data, 72)
            pOff   == DexField(dex_data, 76)
            nMeth  == DexField(dex_data, 88)
            mOff   == DexField(dex_data, 92)
            nClass == DexField(dex_data, 96)
            cOff   == DexField(dex_data, 100)
        IN  /\ \A i \in 0..(nType - 1) : LE32(dex_data, tOff + 4 * i) < nStr
            /\ \A i \in 0..(nProto - 1) : LE32(dex_data, pOff + 12 * i) < nStr
            /\ \A i \in 0..(nMeth - 1) :
                  /\ LE16(dex_data, mOff + 8 * i) < nType
                  /\ LE16(dex_data, mOff + 8 * i + 2) < nProto
                  /\ LE32(dex_data, mOff + 8 * i + 4) < nStr
            /\ \A i \in 0..(nClass - 1) : LE32(dex_data, cOff + 32 * i) < nType

\* a returned image whose tables hold type, proto, method and class entries
C18_Witness ==
    /\ dexPc = "done"
    /\ DexField(dex_data, 64) = 10
    /\ DexField(dex_data, 88) = 5
    /\ LE16(dex_data, DexField(dex_data, 92) + 8 * 4) = 4
    /\ LE32(dex_data, DexField(dex_data, 68) + 4 * 9) = 9

\* the package attribute of the text manifest of a source tree
SourcePackage(tree) ==
    LET k == CHOOSE k \in 1..Len(tree) : tree[k].path = AndroidManifestXml
    IN  tree[k].data[2]

\* the package attributes of the source manifests
SourcePackages ==
    { f.data[2] : f \in { g \in SourceUniverse : g.path = AndroidManifestXml } }

\* the package string of an encoded manifest: the pool string that the raw
\* value of the package attribute (the first attribute of the manifest
\* element) refers to
EncodedPackage(data) ==
    IF data = CreateBinaryManifestDefault
    THEN strings[LE32(manifest_attrs[1], 8) + 1]
    ELSE "unknown"

\* the manifest entry a compile writes for a tree holding only a manifest
\* with package q
EncodedManifestOf(q) ==
    CompileEntries(<<SrcFile(AndroidManifestXml, ManifestText(q), TRUE)>>, 0, 0)[1].data

\* C19 (as claimed): the AndroidManifest.xml entry written by the compile
\* encodes the source manifest: its package string is the package attribute
\* of the source manifest, and it differs from the entry written for a
\* source manifest with any other package.
C19_ManifestEncodesSourcePackage ==
    (Compiled /\ PathExists(srcTree, AndroidManifestXml)) =>
        LET enc == Read(CompiledOut, AndroidManifestXml) IN
        /\ EncodedPackage(enc) = SourcePackage(srcTree)
        /\ \A q \in SourcePackages \ {SourcePackage(srcTree)} : enc # EncodedManifestOf(q)

\* C20 (as claimed): a compile of the unchanged source directory, whenever
\* it is made, leaves an archive file identical to the one the previous
\* compile left.
C20_RecompileIsByteIdentical ==
    [][(last.op = "compile" /\ last'.op = "compile" /\ srcTree' = srcTree)
       => apks'["compiled"] = apks["compiled"]]_vars

\* the string-data items found by reading the image from offset pos up to
\* limit: each is a length byte, that many bytes and a NUL, padded to 4 bytes;
\* a zero length byte is padding.  The result holds the start of each item.
RECURSIVE ParseStringItems(_, _, _)
ParseStringItems(data, pos, limit) ==
    IF pos >= limit \/ data[pos + 1] = 0 THEN <<>>
    ELSE LET end == pos + 1 + data[pos + 1] + 1
         IN  <<pos>> \o ParseStringItems(data, end + ((4 - (end % 4)) % 4), limit)

\* C28 (as claimed): in the returned DEX image the number of string-data
\* items emitted equals string_ids_size, and string_id entry i holds the
\* offset at which the i-th string-data item starts.
C28_StringIdsPointAtItems ==
    dexPc = "done" =>
        LET items == ParseStringItems(dex_data, DexField(dex_data, 108),
                                      DexField(dex_data, 52))
            off   == DexField(dex_data, 60)
        IN  /\ Len(items) = DexField(dex_data, 56)
            /\ \A i \in 1..Len(items) : LE32(dex_data, off + 4 * (i - 1)) = items[i]

\* C29 (as claimed): in the returned DEX image the entry count at the head
\* of the map list equals the number of 12-byte entries emitted after it, the
\* entries include one for the header and one for the string-id table with
\* the header's size and offset, and the list lies within [map_off, file_size).
C29_MapListDescribesItself ==
    dexPc = "done" =>
        LET at      == DexField(dex_data, 52)
            count   == LE32(dex_data, at)
            emitted == (Len(MapListBytes) - 4) \div 12
        IN  /\ count = emitted
            /\ at + 4 + 12 * count <= DexField(dex_data, 32)
            /\ \E k \in 0..(emitted - 1) :
                  /\ LE16(dex_data, at + 4 + 12 * k) = 0
                  /\ LE32(dex_data, at + 4 + 12 * k + 4) = 1
                  /\ LE32(dex_data, at + 4 + 12 * k + 8) = 0
            /\ \E k \in 0..(emitted - 1) :
                  /\ LE32(dex_data, at + 4 + 12 * k + 4) = DexField(dex_data, 56)
                  /\ LE32(dex_data, at + 4 + 12 * k + 8) = DexField(dex_data, 60)

\* the chunk of the binary manifest emitted under a name
AxmlChunk(name) ==
    axmlChunks[CHOOSE i \in 1..Len(axmlChunks) : axmlChunks[i].name = name]

\* C30 (as claimed): in the returned binary manifest the activity,
\* application and manifest start-elements and the start-namespace are
\* closed, in that order, by three end-element chunks (type 0x0103) and one
\* end-namespace chunk (type 0x0101) that follow the last start-element, and
\* the attribute count of each start-element is the number of attribute
\* records emitted in it.
C30_ElementsClosedAndCounted ==
    axmlPc = "done" =>
        LET after == AxmlChunk("activity_elem").start + AxmlChunk("activity_elem").len
            e1 == after
            e2 == e1 + LE32(manifest_data, e1 + 4)
            e3 == e2 + LE32(manifest_data, e2 + 4)
            e4 == e3 + LE32(manifest_data, e3 + 4)
        IN  /\ LE16(manifest_data, AxmlChunk("manifest_elem").start + 28) = Len(manifest_attrs)
            /\ LE16(manifest_data, AxmlChunk("app_elem").start + 28) = 0
            /\ LE16(manifest_data, AxmlChunk("activity_elem").start + 28) = 0
            /\ LE16(manifest_data, e1) = 259
            /\ LE16(manifest_data, e2) = 259
            /\ LE16(manifest_data, e3) = 259
            /\ LE16(manifest_data, e4) = 257

\* C21: in every archive for which sign_apk returns True the entries
\* META-INF/MANIFEST.MF, META-INF/CERT.SF and META-INF/CERT.RSA are present
\* and at least 50 bytes long, and every AndroidManifest.xml entry is at
\* least 100 bytes long.
C21_SignedFilesLongEnough ==
    Signed =>
        /\ {ManifestMF, CertSF, CertRSA} \subseteq NameSet(SignedOut)
        /\ \A i \in 1..Len(SignedOut.entries) :
              LET e == SignedOut.entries[i] IN
              /\ e.filename \in {ManifestMF, CertSF, CertRSA} => DataLen(e.data) >= 50
              /\ e.filename = AndroidManifestXml => DataLen(e.data) >= 100

\* an input whose AndroidManifest.xml is shorter than 100 bytes has been
\* signed and the output holds the default binary manifest in its place
C21_Witness ==
    /\ Signed
    /\ AndroidManifestXml \in NameSet(SignedIn)
    /\ DataLen(Read(SignedIn, AndroidManifestXml)) < 100
    /\ Read(SignedOut, AndroidManifestXml) = CreateBinaryManifestDefault

\* the entries of the input that sign_apk has to copy, and those of them
\* whose read fails
CopyCandidates(f) ==
    { i \in 1..Len(f.entries) :
        ~StartsWithDir(f.entries[i].filename, "META-INF") /\ ~IsDir(f.entries[i].filename) }

Unreadable(f) == { i \in CopyCandidates(f) : ~f.entries[i].ok }

ToolOutcomes == {"absent", "exit0", "nonzero", "raised"}

\* how the body of a built-in fallback ends: it runs through, or something
\* in it raises before the output is opened
FallbackOutcomes == {"done", "error"}

\* what a call can do: the tool exits 0 and no fallback runs ("none"), or the
\* tool fails in one of three ways and the fallback runs
Outcomes ==
    { <<"exit0", "none">> } \cup ((ToolOutcomes \ {"exit0"}) \X FallbackOutcomes)

\* a fallback whose body is not wrapped in try/except
Simulate_Unhandled(fb) == IF fb = "done" THEN "True" ELSE "raised"

\* _simulate_decompile / _simulate_compile: the whole body is inside
\* try ... except Exception: return False
Simulate(fb) == IF fb = "done" THEN "True" ELSE "False"

\* an entry point that gives up when the external tool exits non-zero
EntryPoint_NoFallbackOnNonzero(tool, fb) ==
    IF tool = "exit0" THEN [fallback |-> FALSE, fbret |-> "none", ret |-> "True"]
    ELSE IF tool = "nonzero" THEN [fallback |-> FALSE, fbret |-> "none", ret |-> "False"]
    ELSE [fallback |-> TRUE, fbret |-> Simulate(fb), ret |-> Simulate(fb)]

\* APKTool.decompile / APKTool.compile: whether the fallback ran, what it
\* returned, and what the entry point returns
EntryPoint(tool, fb) ==
    IF tool = "exit0" THEN [fallback |-> FALSE, fbret |-> "none", ret |-> "True"]
    ELSE [fallback |-> TRUE, fbret |-> Simulate(fb), ret |-> Simulate(fb)]

\* the source trees a decompile leaves behind
AppTrees ==
    { <<SrcFile(AndroidManifestXml, ManifestText("com.acme.shop"), TRUE)>>,
      <<SrcFile(AndroidManifestXml, ManifestText("com.acme.shop"), TRUE),
        SrcFile(Path(<<"assets">>, "big", "bin"), Raw(6, 60000, 60000), TRUE)>> }

\* zipfile.ZipFile(path, 'w'): the file is created or truncated at once
OpenForWrite == [exists |-> TRUE, entries |-> <<>>, eocd_end |-> 0, size |-> 0]

\* a file two writers wrote into at the same time: not an archive
Torn == [exists |-> TRUE, entries |-> <<>>, eocd_end |-> 0, size |-> 1]

\* a central directory whose entries can no longer be read from the file
AllUnreadable(f) ==
    [f EXCEPT !.entries = [i \in 1..Len(f.entries) |-> [f.entries[i] EXCEPT !.ok = FALSE]]]

\* APKEditor._validate_apk_structure(apk_path)
ValidateApkStructure(f) == EndRecData(f) /\ AndroidManifestXml \in NameSet(f)

\* APKEditor._validate_signed_apk(apk_path)
ValidateSignedApk(f) == EndRecData(f) /\ {ManifestMF, CertSF, CertRSA} \subseteq NameSet(f)

\* APKEditor.get_compiled_apk_path(project_id)
GetCompiledApkPath ==
    IF apks["signed"].exists THEN "signed"
    ELSE IF apks["compiled"].exists THEN "compiled"
    ELSE "None"

\* the file thread t has open for writing
Writing(t) ==
    IF thr[t].pc = "compiling" /\ thr[t].fb # "error" THEN "compiled"
    ELSE IF thr[t].pc = "signing" THEN "signed"
    ELSE "none"

\* another thread is writing the file
Racing(t, file) == \E u \in Threads \ {t} : Writing(u) = file

\* the threads after t starts writing file: every other writer of it has raced
MarkRaced(th, t, file) ==
    [u \in Threads |->
        IF u # t /\ Writing(u) = file THEN [th[u] EXCEPT !.raced = TRUE] ELSE th[u]]

ApiCall(fn, tool, r, input, output) ==
    [fn |-> fn, tool |-> tool, fallback |-> r.fallback, fbret |-> r.fbret,
     ret |-> r.ret, input |-> input, output |-> output]

\* the upload route: APKTool.decompile(apk_path, decompiled_dir)
Decompile ==
    /\ ~srcExists
    /\ \A t \in Threads : thr[t].pc = "idle"
    /\ \E o \in Outcomes, tree \in AppTrees :
          LET r == EntryPoint(o[1], o[2]) IN
          /\ srcExists' = (r.ret = "True")
          /\ srcTree' = IF r.ret = "True" THEN tree ELSE <<>>
          /\ api' = ApiCall("decompile", o[1], r, "in", "src")
    /\ UNCHANGED <<apks, now, last, thr, done>>
    /\ UNCHANGED dexVars
    /\ UNCHANGED encVars

\* the /compile route enters APKEditor.compile_apk, which calls
\* APKTool.compile(decompiled_dir, compiled.apk); the built-in compile opens
\* the output for writing as it starts
BeginCompile(t) ==
    /\ srcExists
    /\ thr[t].pc = "idle"
    /\ \E fb \in {o[2] : o \in Outcomes} :
          LET writes == fb # "error"
              mine == [IdleThread EXCEPT !.pc = "compiling", !.route = "compile",
                                         !.fb = fb,
                                         !.raced = writes /\ Racing(t, "compiled")]
          IN  /\ thr' = IF writes
                        THEN MarkRaced([thr EXCEPT ![t] = mine], t, "compiled")
                        ELSE [thr EXCEPT ![t] = mine]
              /\ apks' = IF fb = "done"
                         THEN [apks EXCEPT !["compiled"] = OpenForWrite]
                         ELSE apks
    /\ UNCHANGED <<srcExists, srcTree, now, last, done, api>>
    /\ UNCHANGED dexVars
    /\ UNCHANGED encVars

\* APKTool.compile returns; compile_apk gives up with None unless it returned
\* True and compiled.apk exists.  The external tool is taken to leave the
\* archive the built-in compile writes, without the padding.
EndCompile(t) ==
    /\ thr[t].pc = "compiling"
    /\ \E tool \in {o[1] : o \in {x \in Outcomes : x[2] = thr[t].fb}} :
       LET r == EntryPoint(tool, thr[t].fb)
           built == IF tool = "exit0"
                    THEN ZipClose(CompileEntries(srcTree, OriginalSize(srcTree), now))
                    ELSE CompiledFile(srcTree, now)
       IN  \E f \in (IF Writing(t) = "none" THEN {apks["compiled"]}
                     ELSE IF thr[t].raced THEN {built, Torn} ELSE {built}) :
              /\ apks' = [apks EXCEPT !["compiled"] = f]
              /\ api' = ApiCall("compile", tool, r, "src", "compiled")
              /\ IF r.ret = "True" /\ f.exists
                 THEN /\ thr' = [thr EXCEPT ![t].pc = "built"]
                      /\ UNCHANGED done
                 ELSE /\ thr' = [thr EXCEPT ![t] = IdleThread]
                      /\ done' = [route |-> "compile", path |-> "None"]
    /\ UNCHANGED <<srcExists, srcTree, now, last>>
    /\ UNCHANGED dexVars
    /\ UNCHANGED encVars

\* APKTool.sign_apk(input, signed.apk) up to the point where both archives
\* are open: False when the input is missing or is not an archive; otherwise
\* the output is truncated, which empties the input when it is the same file
StartSign(t, route, input) ==
    IF ~apks[input].exists \/ ~EndRecData(apks[input])
    THEN /\ api' = [fn |-> "sign_apk", tool |-> "none", fallback |-> FALSE,
                    fbret |-> "none", ret |-> "False",
                    input |-> input, output |-> "signed"]
         /\ thr' = [thr EXCEPT ![t] = IdleThread]
         /\ done' = [route |-> route,
                     path |-> IF route = "compile" THEN "compiled" ELSE "None"]
         /\ UNCHANGED apks
    ELSE /\ thr' = MarkRaced(
                     [thr EXCEPT ![t] =
                        [IdleThread EXCEPT !.pc = "signing", !.route = route,
                                           !.input = input,
                                           !.snap = IF input = "signed"
                                                    THEN AllUnreadable(apks[input])
                                                    ELSE apks[input],
                                           !.raced = Racing(t, "signed")]],
                     t, "signed")
         /\ apks' = [apks EXCEPT !["signed"] = OpenForWrite]
         /\ UNCHANGED <<done, api>>

\* compile_apk after a successful compile: None when compiled.apk fails
\* _validate_apk_structure, else sign_apk(compiled.apk, signed.apk)
CompileApkSign(t) ==
    /\ thr[t].pc = "built"
    /\ IF ValidateApkStructure(apks["compiled"])
       THEN StartSign(t, "compile", "compiled")
       ELSE /\ thr' = [thr EXCEPT ![t] = IdleThread]
            /\ done' = [route |-> "compile", path |-> "None"]
            /\ UNCHANGED <<apks, api>>
    /\ UNCHANGED <<srcExists, srcTree, now, last>>
    /\ UNCHANGED dexVars
    /\ UNCHANGED encVars

\* the /sign_apk route: sign_apk_advanced(get_compiled_apk_path(id), signed.apk)
SignRoute(t) ==
    /\ srcExists
    /\ thr[t].pc = "idle"
    /\ GetCompiledApkPath # "None"
    /\ StartSign(t, "sign", GetCompiledApkPath)
    /\ UNCHANGED <<srcExists, srcTree, now, last>>
    /\ UNCHANGED dexVars
    /\ UNCHANGED encVars

\* sign_apk writes the output and returns True; compile_apk then returns
\* signed.apk if it passes _validate_signed_apk and compiled.apk otherwise.
\* Entries of an input that was rewritten meanwhile may or may not be readable.
EndSign(t) ==
    /\ thr[t].pc = "signing"
    /\ LET input == thr[t].input
           snap == thr[t].snap
       IN  \E s \in (IF input # "signed" /\ apks[input] # snap
                     THEN {snap, AllUnreadable(snap)} ELSE {snap}) :
           \E f \in (IF thr[t].raced
                     THEN {ZipClose(SignedEntries(s, now, now)), Torn}
                     ELSE {ZipClose(SignedEntries(s, now, now))}) :
              /\ apks' = [apks EXCEPT !["signed"] = f]
              /\ api' = [fn |-> "sign_apk", tool |-> "none", fallback |-> FALSE,
                         fbret |-> "none", ret |-> "True",
                         input |-> input, output |-> "signed"]
              /\ done' = [route |-> thr[t].route,
                          path |-> IF thr[t].route # "compile" THEN "None"
                                   ELSE IF ValidateSignedApk(f) THEN "signed"
                                   ELSE "compiled"]
              /\ thr' = [thr EXCEPT ![t] = IdleThread]
    /\ UNCHANGED <<srcExists, srcTree, now, last>>
    /\ UNCHANGED dexVars
    /\ UNCHANGED encVars

InitApp ==
    /\ srcExists = FALSE
    /\ srcTree = <<>>
    /\ apks = [n \in {"in", "compiled", "signed"} |-> NoFile]
    /\ now = 0
    /\ last = [op |-> "none", ret |-> FALSE, input |-> "none", output |-> "none",
               compile_warnings |-> <<>>]
    /\ DexIdle
    /\ EncIdle
    /\ AppIdle

NextApp ==
    \/ Decompile
    \/ \E t \in Threads :
          \/ BeginCompile(t)
          \/ EndCompile(t)
          \/ CompileApkSign(t)
          \/ SignRoute(t)
          \/ EndSign(t)

SpecApp == InitApp /\ [][NextApp]_vars

(***************************************************************************)
(* Properties of the entry points and of the requests that call them.      *)
(***************************************************************************)
\* C23: decompile, compile and sign_apk never let an exception escape: each
\* call returns True or False.
C23_EntryPointsReturnBoolean ==
    api.fn \in {"decompile", "compile", "sign_apk"} => api.ret \in {"True", "False"}

\* a compile whose external tool raised and whose fallback failed as well
C23_Witness ==
    /\ api.fn = "compile"
    /\ api.tool = "raised"
    /\ api.fallback
    /\ api.ret = "False"

\* C24: decompile and compile run the built-in fallback exactly when the
\* tool or Java is absent, the tool exits non-zero or running it raises, and
\* then return what the fallback returned; when the tool exits 0 the
\* fallback does not run and the call returns True.
C24_FallbackExactlyOnToolFailure ==
    api.fn \in {"decompile", "compile"} =>
        /\ api.fallback <=> api.tool \in {"absent", "nonzero", "raised"}
        /\ api.fallback => api.ret = api.fbret
        /\ api.tool = "exit0" => ~api.fallback /\ api.ret = "True"

\* a compile whose external tool exited non-zero and whose fallback succeeded
C24_Witness ==
    /\ api.fn = "compile"
    /\ api.tool = "nonzero"
    /\ api.fallback
    /\ api.fbret = "True"
    /\ api.ret = "True"

\* C25: no two requests running at the same time have compiled.apk or
\* signed.apk of the project open for writing together.
C25_NoTwoWritersOfOneFile ==
    \A t, u \in Threads :
        t # u /\ Writing(t) # "none" => Writing(u) # Writing(t)

\* C26: every call of APKTool.sign_apk has an input path different from its
\* output path.
C26_SignInputIsNotOutput ==
    api.fn = "sign_apk" => api.input # api.output

\* C27: once a compile_apk call has returned and nothing else is running,
\* get_compiled_apk_path returns the path that call returned (None for None).
C27_PathIsLastCompileResult ==
    ((\A t \in Threads : thr[t].pc = "idle") /\ done.route = "compile")
        => GetCompiledApkPath = done.path

====
